---- MODULE Spec2Model ----
(***************************************************************************)
(* Model of PipelineBase (demos/common/processing/src/async_pipeline.cpp): *)
(* an asynchronous inference pipeline that submits frames to a fixed pool  *)
(* of infer requests and hands the results back in submission order.       *)
(*                                                                         *)
(* Threads: driver threads call submitImage / waitForData /                *)
(* getInferenceResult / ~PipelineBase; the backend runs one completion     *)
(* callback per started request on a thread of its own.                    *)
(***************************************************************************)
EXTENDS Integers, Sequences, FiniteSets, TLC

\* ---------------------------------------------------------------- bounds
\* cnnConfig.maxAsyncRequests: number of infer requests in the pool.
PoolSize == 2
\* Number of submitImage calls that are accepted in one run.
MaxFrames == 4
\* Driver threads that exist; Init starts one of them.
MaxDrivers == 2
\* Saturation of the ghost counter of raising waitForData calls.
MaxRaised == 2
\* Width in bits of the frame id counters (int64_t in the source).
IdWidth == 4
\* Number of submitImage calls accepted in a run of the specifications with
\* fairness.
MaxLiveFrames == 3

Slots == 1..PoolSize
Drivers == 1..MaxDrivers

\* Largest frame id: INT64_MAX scaled to IdWidth bits.
IdMax == 2^(IdWidth - 1) - 1
IdRange == 0..IdMax

\* callbackException == nullptr
Null == -1
\* InferenceResult::IsEmpty(): the default-constructed result.
\* An owned blob holding the data v.
OwnedBlob(v) == [owner |-> 0, data |-> v]

EmptyResult == [frameId |-> -1, metaData |-> -1, startTime |-> -1,
                outputsData |-> OwnedBlob(-1)]

VARIABLES
    inputFrameId,              \* PipelineBase::inputFrameId
    outputFrameId,             \* PipelineBase::outputFrameId
    completedInferenceResults, \* map frameId -> InferenceResult
    callbackException,         \* std::exception_ptr, Null or the error's id
    requestsPool,              \* RequestsPool: slot -> in use?
    requests,                  \* per infer request: execution state and the
                               \* closure of the installed completion callback
    pc,                        \* driver -> position
    retVal,                    \* driver -> local retVal of getInferenceResult
    cbTail,                    \* number of callbacks that left the locked
                               \* block and have not called notify_one yet
    destroyed,                 \* ~PipelineBase has returned
    \* -------- history variables (not program state)
    lastOp,                    \* the step taken last and what it returned
    delivered,                 \* frameIds of the non-empty results returned
    returned,                  \* the non-empty results returned, as the
                               \* caller reads them
    failOrder,                 \* ids of the errors thrown in callbacks, in order
    nSubmitted,                \* accepted submitImage calls
    nCompleted,                \* completion callbacks that have run
    nRaised,                   \* waitForData calls that raised (saturating)
    excAtEntry                 \* driver -> callbackException when its
                               \* getInferenceResult call started

vars == <<inputFrameId, outputFrameId, completedInferenceResults,
          callbackException, requestsPool, requests, cbTail, pc, retVal,
          destroyed,
          lastOp, delivered, returned, failOrder, nSubmitted, nCompleted, nRaised,
          excAtEntry>>

Op(name, status, val) == [op |-> name, status |-> status, val |-> val]

\* ------------------------------------------------------------ arithmetic
\* An int64_t value after an arithmetic step, kept to IdWidth bits
\* (two's complement).
ToSigned(x) == ((x + 2^(IdWidth - 1)) % 2^IdWidth) - 2^(IdWidth - 1)

\* id++; if (id < 0) id = 0;
NextFrameId(id) ==
    LET inc == ToSigned(id + 1)
    IN  IF inc < 0 THEN 0 ELSE inc

\* Smallest value of the counters: INT64_MIN scaled to IdWidth bits.
MinId == -(2^(IdWidth - 1))

\* The values "id++; if (id < 0) id = 0;" can leave in id.  At id = IdMax
\* the increment overflows a signed integer, which is undefined: a build
\* that wraps and then tests the new value leaves 0; a build that, assuming
\* no overflow, tests the old value (id < -1) leaves the wrapped MinId.
IncrementOutcomes(id) ==
    IF id + 1 > IdMax THEN {0, MinId} ELSE {NextFrameId(id)}

\* --------------------------------------------------------- requests pool
\* RequestsPool::isIdleRequestAvailable
isIdleRequestAvailable == \E s \in Slots : ~requestsPool[s]

\* RequestsPool::getIdleRequest: the first request not in use, 0 for none.
getIdleRequest ==
    IF isIdleRequestAvailable
    THEN CHOOSE s \in Slots : ~requestsPool[s]
                              /\ \A r \in Slots : r < s => requestsPool[r]
    ELSE 0

\* RequestsPool::setRequestIdle
setRequestIdle(pool, s) == [pool EXCEPT ![s] = FALSE]

\* RequestsPool::waitForTotalCompletion: every started request has run to
\* completion, its completion callback included.
waitForTotalCompletion ==
    /\ \A s \in Slots : requests[s].state # "running"
    /\ cbTail = 0

\* ------------------------------------------------------------------ Init
NoRequest == [state |-> "none", frameID |-> -1, ord |-> -1, blob |-> -1]

\* std::unordered_map with no element.
EmptyMap == [k \in {} |-> EmptyResult]

InitCommon ==
    /\ callbackException = Null
    /\ requestsPool = [s \in Slots |-> FALSE]
    /\ requests = [s \in Slots |-> NoRequest]
    /\ cbTail = 0
    /\ pc = [t \in Drivers |-> IF t = 1 THEN "idle" ELSE "off"]
    /\ retVal = [t \in Drivers |-> EmptyResult]
    /\ destroyed = FALSE
    /\ lastOp = Op("construct", "ok", -1)
    /\ delivered = <<>>
    /\ returned = <<>>
    /\ failOrder = <<>>
    /\ nSubmitted = 0
    /\ nCompleted = 0
    /\ nRaised = 0
    /\ excAtEntry = [t \in Drivers |-> Null]

\* The state the constructor leaves.
Init ==
    /\ inputFrameId = 0
    /\ outputFrameId = 0
    /\ completedInferenceResults = EmptyMap
    /\ InitCommon

\* ------------------------------------------------------------------- map
\* std::unordered_map::emplace: inserts only if the key is absent.
emplace(map, k, r) ==
    IF k \in DOMAIN map
    THEN map
    ELSE [x \in DOMAIN map \cup {k} |-> IF x = k THEN r ELSE map[x]]

\* std::unordered_map::erase
erase(map, k) == [x \in DOMAIN map \ {k} |-> map[x]]

\* ----------------------------------------------------------- submission
\* PipelineBase::submitRequest on request s: bind the callback closure to
\* the current inputFrameId, advance inputFrameId, StartAsync.
submitRequest(s) ==
    /\ requests' = [requests EXCEPT ![s] = [state |-> "running",
                                            frameID |-> inputFrameId,
                                            ord |-> nSubmitted,
                                            blob |-> requests[s].blob]]
    /\ inputFrameId' \in IncrementOutcomes(inputFrameId)
    /\ nSubmitted' = nSubmitted + 1
    /\ lastOp' = Op("submitImage", "accepted", inputFrameId)

\* submitImage with the frame id taken before the pool is probed.
SubmitImageIdFirst(t) ==
    /\ pc[t] = "idle"
    /\ ~destroyed
    /\ LET s == getIdleRequest
       IN  IF s = 0
           THEN /\ lastOp' = Op("submitImage", "rejected", -1)
                /\ inputFrameId' \in IncrementOutcomes(inputFrameId)
                /\ UNCHANGED <<requests, requestsPool, nSubmitted>>
           ELSE /\ nSubmitted < MaxFrames
                /\ requestsPool' = [requestsPool EXCEPT ![s] = TRUE]
                /\ submitRequest(s)
    /\ UNCHANGED <<nCompleted, outputFrameId, completedInferenceResults,
                   callbackException, cbTail, pc, retVal, destroyed,
                   delivered, returned, failOrder, nRaised, excAtEntry>>

\* submitImage with the request handed back to the pool right after
\* StartAsync instead of in the completion callback.
SubmitImageNoMark(t) ==
    /\ pc[t] = "idle"
    /\ ~destroyed
    /\ LET s == getIdleRequest
       IN  IF s = 0
           THEN /\ lastOp' = Op("submitImage", "rejected", -1)
                /\ UNCHANGED <<inputFrameId, requests, requestsPool,
                               nSubmitted>>
           ELSE /\ nSubmitted < MaxFrames
                /\ UNCHANGED requestsPool
                /\ submitRequest(s)
    /\ UNCHANGED <<nCompleted, outputFrameId, completedInferenceResults,
                   callbackException, cbTail, pc, retVal, destroyed,
                   delivered, returned, failOrder, nRaised, excAtEntry>>

\* PipelineBase::submitImage
SubmitImage(t) ==
    /\ pc[t] = "idle"
    /\ ~destroyed
    /\ LET s == getIdleRequest
       IN  IF s = 0
           THEN /\ lastOp' = Op("submitImage", "rejected", -1)
                /\ UNCHANGED <<inputFrameId, requests, requestsPool,
                               nSubmitted>>
           ELSE /\ nSubmitted < MaxFrames
                /\ requestsPool' = [requestsPool EXCEPT ![s] = TRUE]
                /\ submitRequest(s)
    /\ UNCHANGED <<nCompleted, outputFrameId, completedInferenceResults,
                   callbackException, cbTail, pc, retVal, destroyed,
                   delivered, returned, failOrder, nRaised, excAtEntry>>

\* ------------------------------------------------- completion callback
\* The metadata produced by preprocess for the submission of ordinal ord,
\* the time of that submission, and the output the backend computes for it
\* (written to the request's blob when the inference ends).
MetaData(ord) == ord
StartTime(ord) == ord
BackendOutput(ord) == ord

\* The InferenceResult built by the callback of the submission of ordinal
\* ord, which captured frameID, metaData and frameStartTime.
makeResult(frameID, ord, blob) ==
    [frameId |-> frameID, metaData |-> MetaData(ord),
     startTime |-> StartTime(ord), outputsData |-> blob]

\* The data read through a blob pointer: an owned copy, or the blob of
\* request b.owner as it is now.
BlobData(b) == IF b.owner = 0 THEN b.data ELSE requests[b.owner].blob

\* What the caller reads in a result it was handed.
Read(r) == [frameId |-> r.frameId, metaData |-> r.metaData,
            startTime |-> r.startTime, data |-> BlobData(r.outputsData)]

\* The callback with the emplace moved before the extraction of the
\* outputs, so that a result is stored and the request released even when
\* the extraction throws.
CallbackInsertFirst(s, ok) ==
    /\ requests[s].state = "running"
    /\ LET frameID == requests[s].frameID
           ord == requests[s].ord
       IN  /\ completedInferenceResults' =
                  emplace(completedInferenceResults, frameID,
                          makeResult(frameID, ord,
                                     OwnedBlob(BackendOutput(ord))))
           /\ requestsPool' = setRequestIdle(requestsPool, s)
           /\ IF ok
              THEN UNCHANGED <<callbackException, failOrder>>
              ELSE /\ callbackException' =
                          IF callbackException = Null THEN ord
                          ELSE callbackException
                   /\ failOrder' = Append(failOrder, ord)
           /\ cbTail' = cbTail + 1
           /\ lastOp' = Op("callback", IF ok THEN "ok" ELSE "failed", frameID)
    /\ requests' = [requests EXCEPT ![s].state = "done",
                                     ![s].blob = BackendOutput(requests[s].ord)]
    /\ nCompleted' = nCompleted + 1
    /\ UNCHANGED <<inputFrameId, outputFrameId, pc, retVal, destroyed,
                   delivered, returned, nSubmitted, nRaised, excAtEntry>>

\* The callback without the test of callbackException before the store:
\* the last failure wins.
CallbackLastWins(s, ok) ==
    /\ requests[s].state = "running"
    /\ LET frameID == requests[s].frameID
           ord == requests[s].ord
       IN  /\ IF ok
              THEN /\ completedInferenceResults' =
                          emplace(completedInferenceResults, frameID,
                                  makeResult(frameID, ord,
                                             OwnedBlob(BackendOutput(ord))))
                   /\ requestsPool' = setRequestIdle(requestsPool, s)
                   /\ UNCHANGED <<callbackException, failOrder>>
              ELSE /\ callbackException' = ord
                   /\ failOrder' = Append(failOrder, ord)
                   /\ UNCHANGED <<completedInferenceResults, requestsPool>>
           /\ cbTail' = cbTail + 1
           /\ lastOp' = Op("callback", IF ok THEN "ok" ELSE "failed", frameID)
    /\ requests' = [requests EXCEPT ![s].state = "done",
                                     ![s].blob = BackendOutput(requests[s].ord)]
    /\ nCompleted' = nCompleted + 1
    /\ UNCHANGED <<inputFrameId, outputFrameId, pc, retVal, destroyed,
                   delivered, returned, nSubmitted, nRaised, excAtEntry>>

\* The callback storing the pointer to the request's blob in the result
\* instead of a copy of the blob.
CallbackNoCopy(s, ok) ==
    /\ requests[s].state = "running"
    /\ LET frameID == requests[s].frameID
           ord == requests[s].ord
       IN  /\ IF ok
              THEN /\ completedInferenceResults' =
                          emplace(completedInferenceResults, frameID,
                                  makeResult(frameID, ord,
                                             [owner |-> s, data |-> -1]))
                   /\ requestsPool' = setRequestIdle(requestsPool, s)
                   /\ UNCHANGED <<callbackException, failOrder>>
              ELSE /\ callbackException' =
                          IF callbackException = Null THEN ord
                          ELSE callbackException
                   /\ failOrder' = Append(failOrder, ord)
                   /\ UNCHANGED <<completedInferenceResults, requestsPool>>
           /\ cbTail' = cbTail + 1
           /\ lastOp' = Op("callback", IF ok THEN "ok" ELSE "failed", frameID)
    /\ requests' = [requests EXCEPT ![s].state = "done",
                                     ![s].blob = BackendOutput(requests[s].ord)]
    /\ nCompleted' = nCompleted + 1
    /\ UNCHANGED <<inputFrameId, outputFrameId, pc, retVal, destroyed,
                   delivered, returned, nSubmitted, nRaised, excAtEntry>>

\* The locked block of the completion callback of request s.  ok = FALSE:
\* building the result throws before the emplace.
\* onProcessingCompleted is the hook of the base class, which does nothing.
Callback(s, ok) ==
    /\ requests[s].state = "running"
    /\ LET frameID == requests[s].frameID
           ord == requests[s].ord
       IN  /\ IF ok
              THEN /\ completedInferenceResults' =
                          emplace(completedInferenceResults, frameID,
                                  makeResult(frameID, ord,
                                             OwnedBlob(BackendOutput(ord))))
                   /\ requestsPool' = setRequestIdle(requestsPool, s)
                   /\ UNCHANGED <<callbackException, failOrder>>
              ELSE /\ callbackException' =
                          IF callbackException = Null THEN ord
                          ELSE callbackException
                   /\ failOrder' = Append(failOrder, ord)
                   /\ UNCHANGED <<completedInferenceResults, requestsPool>>
           /\ cbTail' = cbTail + 1
           /\ lastOp' = Op("callback", IF ok THEN "ok" ELSE "failed", frameID)
    /\ requests' = [requests EXCEPT ![s].state = "done",
                                     ![s].blob = BackendOutput(requests[s].ord)]
    /\ nCompleted' = nCompleted + 1
    /\ UNCHANGED <<inputFrameId, outputFrameId, pc, retVal, destroyed,
                   delivered, returned, nSubmitted, nRaised, excAtEntry>>

\* The callback without the notify_one call.
NotifyNone ==
    /\ cbTail > 0
    /\ cbTail' = cbTail - 1
    /\ lastOp' = Op("notify_one", "ok", -1)
    /\ UNCHANGED <<nCompleted, inputFrameId, outputFrameId,
                   completedInferenceResults, callbackException,
                   requestsPool, requests, pc, retVal, destroyed, delivered, returned,
                   failOrder, nSubmitted, nRaised, excAtEntry>>

\* condVar.notify_one() at the end of the callback: wakes one of the
\* threads blocked in condVar.wait, if there is one.
Notify ==
    /\ cbTail > 0
    /\ cbTail' = cbTail - 1
    /\ IF \E t \in Drivers : pc[t] = "blocked"
       THEN \E t \in Drivers :
              /\ pc[t] = "blocked"
              /\ pc' = [pc EXCEPT ![t] = "woken"]
       ELSE UNCHANGED pc
    /\ lastOp' = Op("notify_one", "ok", -1)
    /\ UNCHANGED <<nCompleted, inputFrameId, outputFrameId, completedInferenceResults,
                   callbackException, requestsPool, requests, retVal,
                   destroyed, delivered, returned, failOrder, nSubmitted, nRaised,
                   excAtEntry>>

\* ------------------------------------------------------------ waitForData
\* The predicate without the test of callbackException.
waitPredicateNoExc ==
    \/ isIdleRequestAvailable
    \/ outputFrameId \in DOMAIN completedInferenceResults

\* The predicate testing that the map is not empty instead of
\* find(outputFrameId).
waitPredicateAnyResult ==
    \/ callbackException # Null
    \/ isIdleRequestAvailable
    \/ DOMAIN completedInferenceResults # {}

\* The predicate of condVar.wait.
waitPredicate ==
    \/ callbackException # Null
    \/ isIdleRequestAvailable
    \/ outputFrameId \in DOMAIN completedInferenceResults

\* condVar.wait is over: rethrow callbackException or return.
waitReturn(t) ==
    /\ pc' = [pc EXCEPT ![t] = "idle"]
    /\ IF callbackException # Null
       THEN /\ lastOp' = Op("waitForData", "raised", callbackException)
            /\ nRaised' = IF nRaised < MaxRaised THEN nRaised + 1 ELSE nRaised
       ELSE /\ lastOp' = Op("waitForData", "ok", -1)
            /\ UNCHANGED nRaised

waitBlock(t) ==
    /\ pc' = [pc EXCEPT ![t] = "blocked"]
    /\ lastOp' = Op("waitForData", "blocked", -1)
    /\ UNCHANGED nRaised

\* PipelineBase::waitForData, up to its return or to blocking in wait.
WaitForData(t) ==
    /\ pc[t] = "idle"
    /\ ~destroyed
    /\ IF waitPredicate THEN waitReturn(t) ELSE waitBlock(t)
    /\ UNCHANGED <<nCompleted, inputFrameId, outputFrameId, completedInferenceResults,
                   callbackException, requestsPool, requests, cbTail, retVal,
                   destroyed, delivered, returned, failOrder, nSubmitted, excAtEntry>>

\* A woken thread re-acquires mtx and evaluates the predicate again.
WakeUp(t) ==
    /\ pc[t] = "woken"
    /\ IF waitPredicate THEN waitReturn(t) ELSE waitBlock(t)
    /\ UNCHANGED <<nCompleted, inputFrameId, outputFrameId, completedInferenceResults,
                   callbackException, requestsPool, requests, cbTail, retVal,
                   destroyed, delivered, returned, failOrder, nSubmitted, excAtEntry>>

\* std::condition_variable may wake a waiter without a notification.
SpuriousWakeup(t) ==
    /\ pc[t] = "blocked"
    /\ pc' = [pc EXCEPT ![t] = "woken"]
    /\ lastOp' = Op("spurious", "ok", -1)
    /\ UNCHANGED <<nCompleted, inputFrameId, outputFrameId, completedInferenceResults,
                   callbackException, requestsPool, requests, cbTail, retVal,
                   destroyed, delivered, returned, failOrder, nSubmitted, nRaised,
                   excAtEntry>>

\* ----------------------------------------------------- getInferenceResult
\* The locked block taking the first entry of the map (begin()) instead of
\* find(outputFrameId).
GetLockedAny(t, api) ==
    /\ pc[t] = "idle"
    /\ ~destroyed
    /\ IF DOMAIN completedInferenceResults # {}
       THEN LET k == CHOOSE x \in DOMAIN completedInferenceResults :
                        \A y \in DOMAIN completedInferenceResults : x <= y
            IN  /\ retVal' = [retVal EXCEPT
                                ![t] = completedInferenceResults[k]]
                /\ completedInferenceResults' =
                       erase(completedInferenceResults, k)
       ELSE /\ retVal' = [retVal EXCEPT ![t] = EmptyResult]
            /\ UNCHANGED completedInferenceResults
    /\ pc' = [pc EXCEPT ![t] = api]
    /\ excAtEntry' = [excAtEntry EXCEPT ![t] = callbackException]
    /\ lastOp' = Op("find", "ok", outputFrameId)
    /\ UNCHANGED <<nCompleted, inputFrameId, outputFrameId, callbackException,
                   requestsPool, requests, cbTail, destroyed, delivered, returned,
                   failOrder, nSubmitted, nRaised>>

\* The locked block without the erase.
GetLockedNoErase(t, api) ==
    /\ pc[t] = "idle"
    /\ ~destroyed
    /\ IF outputFrameId \in DOMAIN completedInferenceResults
       THEN retVal' = [retVal EXCEPT
                         ![t] = completedInferenceResults[outputFrameId]]
       ELSE retVal' = [retVal EXCEPT ![t] = EmptyResult]
    /\ pc' = [pc EXCEPT ![t] = api]
    /\ excAtEntry' = [excAtEntry EXCEPT ![t] = callbackException]
    /\ lastOp' = Op("find", "ok", outputFrameId)
    /\ UNCHANGED <<nCompleted, inputFrameId, outputFrameId, callbackException,
                   requestsPool, requests, cbTail, destroyed, delivered, returned,
                   failOrder, nSubmitted, nRaised, completedInferenceResults>>

\* The locked block of getInferenceResult: find outputFrameId, move the
\* entry to retVal and erase it.  api names the entry point, getResult or
\* getInferenceResult.
GetLocked(t, api) ==
    /\ pc[t] = "idle"
    /\ ~destroyed
    /\ IF outputFrameId \in DOMAIN completedInferenceResults
       THEN /\ retVal' = [retVal EXCEPT
                            ![t] = completedInferenceResults[outputFrameId]]
            /\ completedInferenceResults' =
                   erase(completedInferenceResults, outputFrameId)
       ELSE /\ retVal' = [retVal EXCEPT ![t] = EmptyResult]
            /\ UNCHANGED completedInferenceResults
    /\ pc' = [pc EXCEPT ![t] = api]
    /\ excAtEntry' = [excAtEntry EXCEPT ![t] = callbackException]
    /\ lastOp' = Op("find", "ok", outputFrameId)
    /\ UNCHANGED <<nCompleted, inputFrameId, outputFrameId, callbackException,
                   requestsPool, requests, cbTail, destroyed, delivered, returned,
                   failOrder, nSubmitted, nRaised>>

\* getInferenceResult rethrowing callbackException, as waitForData does,
\* before it returns.
GetUnlockedRaise(t) ==
    /\ pc[t] \in {"getInferenceResult", "getResult"}
    /\ IF callbackException # Null
       THEN /\ lastOp' = Op(pc[t], "raised", callbackException)
            /\ UNCHANGED <<outputFrameId, delivered, returned>>
       ELSE IF retVal[t] # EmptyResult
       THEN /\ outputFrameId' \in IncrementOutcomes(retVal[t].frameId)
            /\ delivered' = Append(delivered, retVal[t].frameId)
            /\ returned' = Append(returned, Read(retVal[t]))
            /\ lastOp' = Op(pc[t], "result", retVal[t].frameId)
       ELSE /\ lastOp' = Op(pc[t], "empty", -1)
            /\ UNCHANGED <<outputFrameId, delivered, returned>>
    /\ pc' = [pc EXCEPT ![t] = "idle"]
    /\ retVal' = [retVal EXCEPT ![t] = EmptyResult]
    /\ UNCHANGED <<nCompleted, inputFrameId, completedInferenceResults,
                   callbackException, requestsPool, requests, cbTail,
                   destroyed, failOrder, nSubmitted, nRaised, excAtEntry>>

\* getInferenceResult without the update of outputFrameId.
GetUnlockedNoAdvance(t) ==
    /\ pc[t] \in {"getInferenceResult", "getResult"}
    /\ IF retVal[t] # EmptyResult
       THEN /\ delivered' = Append(delivered, retVal[t].frameId)
            /\ returned' = Append(returned, Read(retVal[t]))
            /\ lastOp' = Op(pc[t], "result", retVal[t].frameId)
            /\ UNCHANGED outputFrameId
       ELSE /\ lastOp' = Op(pc[t], "empty", -1)
            /\ UNCHANGED <<outputFrameId, delivered, returned>>
    /\ pc' = [pc EXCEPT ![t] = "idle"]
    /\ retVal' = [retVal EXCEPT ![t] = EmptyResult]
    /\ UNCHANGED <<nCompleted, inputFrameId, completedInferenceResults,
                   callbackException, requestsPool, requests, cbTail,
                   destroyed, failOrder, nSubmitted, nRaised, excAtEntry>>

\* The rest of getInferenceResult, after mtx is released: advance
\* outputFrameId past the frame taken and return retVal.  getResult adds
\* the postprocessing of a non-empty result and returns it.
GetUnlocked(t) ==
    /\ pc[t] \in {"getInferenceResult", "getResult"}
    /\ IF retVal[t] # EmptyResult
       THEN /\ outputFrameId' \in IncrementOutcomes(retVal[t].frameId)
            /\ delivered' = Append(delivered, retVal[t].frameId)
            /\ returned' = Append(returned, Read(retVal[t]))
            /\ lastOp' = Op(pc[t], "result", retVal[t].frameId)
       ELSE /\ lastOp' = Op(pc[t], "empty", -1)
            /\ UNCHANGED <<outputFrameId, delivered, returned>>
    /\ pc' = [pc EXCEPT ![t] = "idle"]
    /\ retVal' = [retVal EXCEPT ![t] = EmptyResult]
    /\ UNCHANGED <<nCompleted, inputFrameId, completedInferenceResults,
                   callbackException, requestsPool, requests, cbTail,
                   destroyed, failOrder, nSubmitted, nRaised, excAtEntry>>

\* ------------------------------------------------------------- teardown
\* The destructor without the call of waitForTotalCompletion.
DestructorNoWait(t) ==
    /\ pc[t] = "idle"
    /\ \A u \in Drivers : pc[u] \in {"idle", "off"}
    /\ ~destroyed
    /\ destroyed' = TRUE
    /\ lastOp' = Op("~PipelineBase", "ok", -1)
    /\ UNCHANGED <<nCompleted, inputFrameId, outputFrameId,
                   completedInferenceResults, callbackException, requestsPool,
                   requests, cbTail, pc, retVal, delivered, returned, failOrder,
                   nSubmitted, nRaised, excAtEntry>>

\* PipelineBase::~PipelineBase: returns when waitForTotalCompletion does.
Destructor(t) ==
    /\ pc[t] = "idle"
    /\ \A u \in Drivers : pc[u] \in {"idle", "off"}
    /\ ~destroyed
    /\ waitForTotalCompletion
    /\ destroyed' = TRUE
    /\ lastOp' = Op("~PipelineBase", "ok", -1)
    /\ UNCHANGED <<nCompleted, inputFrameId, outputFrameId,
                   completedInferenceResults, callbackException, requestsPool,
                   requests, cbTail, pc, retVal, delivered, returned, failOrder,
                   nSubmitted, nRaised, excAtEntry>>

\* The steps that run with mtx held: the callback's locked block (line
\* 97), the find/erase block of getInferenceResult (line 160) and
\* waitForData (line 76).
MtxHeld(op) == op \in {"callback", "find", "waitForData"}

\* ------------------------------------------------------------------ Next
Next ==
    \/ \E t \in Drivers : SubmitImage(t)
    \/ \E s \in Slots, ok \in BOOLEAN : Callback(s, ok)
    \/ Notify
    \/ \E t \in Drivers : WaitForData(t)
    \/ \E t \in Drivers : WakeUp(t)
    \/ \E t \in Drivers : SpuriousWakeup(t)
    \/ \E t \in Drivers, api \in {"getInferenceResult", "getResult"} :
          GetLocked(t, api)
    \/ \E t \in Drivers : GetUnlocked(t)
    \/ \E t \in Drivers : Destructor(t)

Spec == Init /\ [][Next]_vars

\* The backend completes every started request and runs its callback to
\* the end, and a woken thread gets to run.
Fairness ==
    /\ WF_vars(\E s \in Slots, ok \in BOOLEAN : Callback(s, ok))
    /\ WF_vars(Notify)
    /\ WF_vars(\E t \in Drivers : WakeUp(t))

\* Next with at most MaxLiveFrames submissions accepted.
NextLive ==
    \/ \E t \in Drivers : SubmitImage(t) /\ nSubmitted' <= MaxLiveFrames
    \/ \E s \in Slots, ok \in BOOLEAN : Callback(s, ok)
    \/ Notify
    \/ \E t \in Drivers : WaitForData(t)
    \/ \E t \in Drivers : WakeUp(t)
    \/ \E t \in Drivers : SpuriousWakeup(t)
    \/ \E t \in Drivers, api \in {"getInferenceResult", "getResult"} :
          GetLocked(t, api)
    \/ \E t \in Drivers : GetUnlocked(t)
    \/ \E t \in Drivers : Destructor(t)

SpecLive == Init /\ [][NextLive]_vars /\ Fairness

\* A driver that is not blocked keeps calling waitForData and
\* getInferenceResult / getResult.
DriverFairness ==
    /\ WF_vars(\E t \in Drivers : WaitForData(t))
    /\ WF_vars(\E t \in Drivers, api \in {"getInferenceResult", "getResult"} :
                  GetLocked(t, api))
    /\ WF_vars(\E t \in Drivers : GetUnlocked(t))

SpecLiveDriver == Init /\ [][NextLive]_vars /\ Fairness /\ DriverFairness

\* The state the constructor leaves, with two threads calling the pipeline.
InitMulti ==
    /\ inputFrameId = 0
    /\ outputFrameId = 0
    /\ completedInferenceResults = EmptyMap
    /\ callbackException = Null
    /\ requestsPool = [s \in Slots |-> FALSE]
    /\ requests = [s \in Slots |-> NoRequest]
    /\ cbTail = 0
    /\ pc = [t \in Drivers |-> IF t <= 2 THEN "idle" ELSE "off"]
    /\ retVal = [t \in Drivers |-> EmptyResult]
    /\ destroyed = FALSE
    /\ lastOp = Op("construct", "ok", -1)
    /\ delivered = <<>>
    /\ returned = <<>>
    /\ failOrder = <<>>
    /\ nSubmitted = 0
    /\ nCompleted = 0
    /\ nRaised = 0
    /\ excAtEntry = [t \in Drivers |-> Null]

SpecMulti == InitMulti /\ [][Next]_vars

\* A state reached after IdMax submissions, all completed: none of the
\* results consumed yet (o = 0) or all of them consumed (o = IdMax).  The
\* history variables count from this state on.
InitWrap ==
    /\ inputFrameId = IdMax
    /\ \E o \in {0, IdMax} :
          /\ outputFrameId = o
          /\ completedInferenceResults =
                 [k \in {x \in IdRange : o <= x /\ x < IdMax} |->
                      makeResult(k, k - IdMax,
                                 OwnedBlob(BackendOutput(k - IdMax)))]
    /\ InitCommon

SpecWrap == InitWrap /\ [][Next]_vars

TypeOK ==
    /\ inputFrameId \in IdRange \cup {MinId}
    /\ outputFrameId \in IdRange \cup {MinId}
    /\ DOMAIN completedInferenceResults \subseteq IdRange \cup {MinId}
    /\ callbackException \in {Null} \cup 0..(MaxFrames - 1)
    /\ requestsPool \in [Slots -> BOOLEAN]
    /\ nSubmitted \in 0..MaxFrames

\* ------------------------------------------------------------ properties
GetOps == {"getInferenceResult", "getResult"}

\* The pool has no idle request.
AllBusy == \A s \in Slots : requestsPool[s]

\* A step in which driver t returns from getInferenceResult / getResult.
GetReturns(t) == pc[t] \in GetOps /\ pc'[t] = "idle"

\* C1: when no completion callback has failed, the frameIds of the
\* non-empty results returned so far are 0, 1, 2, ... : the i-th result
\* returned is frame i-1, whatever the order the callbacks ran in.
C1_InOrderDelivery ==
    failOrder = <<>> =>
        \A i \in 1..Len(delivered) : delivered[i] = i - 1

\* Frames 0 and 1 have been returned, and frame 3 completed before frame 2.
C1_Witness ==
    /\ failOrder = <<>>
    /\ delivered = <<0, 1>>
    /\ 3 \in DOMAIN completedInferenceResults
    /\ 2 \notin DOMAIN completedInferenceResults

\* C2: a submitImage call made while every request is in use returns -1 and
\* changes neither inputFrameId nor any request or its callback; one made
\* while a request is idle is accepted, returns the next consecutive frame
\* id (the number of submissions accepted before) and advances
\* inputFrameId by one.  The call never waits: it is one step.
C2_RejectedWhenFull ==
    [][ lastOp'.op = "submitImage" =>
          IF AllBusy
          THEN /\ lastOp'.status = "rejected"
               /\ lastOp'.val = -1
               /\ UNCHANGED <<inputFrameId, requests, requestsPool,
                              nSubmitted>>
          ELSE /\ lastOp'.status = "accepted"
               /\ lastOp'.val = inputFrameId
               /\ lastOp'.val = nSubmitted
               /\ inputFrameId' = inputFrameId + 1
               /\ \E s \in Slots :
                     /\ ~requestsPool[s]
                     /\ requestsPool'[s]
                     /\ requests'[s].state = "running"
                     /\ requests'[s].frameID = inputFrameId
      ]_vars

\* A submission is rejected with the pool full again, after a callback
\* released a request and the next submission was accepted.
C2_Witness ==
    /\ lastOp = Op("submitImage", "rejected", -1)
    /\ AllBusy
    /\ nSubmitted > PoolSize
    /\ inputFrameId = nSubmitted

\* C3 as stated: the submissions accepted and not yet consumed,
\* inputFrameId - outputFrameId, number at most PoolSize.
C3_InFlightAtMostPool ==
    inputFrameId - outputFrameId <= PoolSize

\* C3 amended: the submissions accepted whose completion callback has not
\* run yet number at most PoolSize.
C3_RunningAtMostPool ==
    nSubmitted - nCompleted <= PoolSize

\* The pool is full of running requests after requests have been reused.
C3_Witness ==
    /\ nSubmitted - nCompleted = PoolSize
    /\ nCompleted > 0
    /\ inputFrameId - outputFrameId > PoolSize

\* C4 as stated: completedInferenceResults holds at most PoolSize entries.
C4_StoreAtMostPool ==
    Cardinality(DOMAIN completedInferenceResults) <= PoolSize

\* C4 amended: completedInferenceResults holds at most as many entries as
\* there are submissions accepted and not yet returned to the consumer.
C4_StoreAtMostUnconsumed ==
    Cardinality(DOMAIN completedInferenceResults)
        <= nSubmitted - Len(delivered)

\* More results than requests are stored, after one result was returned.
C4_Witness ==
    /\ Cardinality(DOMAIN completedInferenceResults) > PoolSize
    /\ Len(delivered) > 0

\* C5: a waitForData step taken when callbackException is set never blocks
\* and raises exactly callbackException.
C5_WaitRaisesSticky ==
    [][ (callbackException # Null /\ lastOp'.op = "waitForData") =>
          /\ lastOp'.status = "raised"
          /\ lastOp'.val = callbackException
          /\ \A t \in Drivers : pc'[t] # "blocked"
      ]_vars

\* waitForData raised for the second time, with every request in use and
\* no result stored for outputFrameId.
C5_Witness ==
    /\ lastOp.op = "waitForData"
    /\ lastOp.status = "raised"
    /\ nRaised >= 2
    /\ AllBusy
    /\ outputFrameId \notin DOMAIN completedInferenceResults

FailedFrame == failOrder[1]

C8_FirstErrorSticky ==
    [][ /\ callbackException # Null => callbackException' = callbackException
        /\ failOrder' # <<>> => callbackException' = failOrder'[1]
        /\ failOrder' = <<>> => callbackException' = Null
      ]_vars

\* Two callbacks failed, waitForData raised, and results were still
\* returned and frames submitted afterwards.
C8_Witness ==
    /\ Len(failOrder) >= 2
    /\ callbackException = failOrder[1]
    /\ callbackException # failOrder[2]
    /\ nRaised >= 1

\* C9: when the destructor has returned, no started request is still
\* running and no completion callback is still executing.
C9_TeardownDrains ==
    destroyed =>
        /\ \A s \in Slots : requests[s].state # "running"
        /\ cbTail = 0
        /\ nCompleted = nSubmitted

\* The destructor returned after several submissions, one of which failed.
C9_Witness ==
    /\ destroyed
    /\ nSubmitted >= 2
    /\ failOrder # <<>>

\* C10: a completion callback that runs for a frameID already present in
\* completedInferenceResults records an error and does not release its
\* request as a normal completion does.
C10_DuplicateDetected ==
    [][ (/\ lastOp'.op = "callback"
         /\ lastOp'.val \in DOMAIN completedInferenceResults) =>
            /\ callbackException' # Null
            /\ requestsPool' = requestsPool
      ]_vars

\* C11: waitForData returns normally only when callbackException is null
\* and a request is idle or the result of frame outputFrameId is stored;
\* results of later frames do not make it return.
C11_WaitReturnsOnlyWhenReady ==
    [][ (lastOp'.op = "waitForData" /\ lastOp'.status = "ok") =>
          /\ callbackException' = Null
          /\ \/ \E s \in Slots : ~requestsPool'[s]
             \/ outputFrameId' \in DOMAIN completedInferenceResults'
      ]_vars

\* waitForData returned with every request in use, because the result of
\* frame outputFrameId is stored.
C11_Witness ==
    /\ lastOp = Op("waitForData", "ok", -1)
    /\ AllBusy
    /\ outputFrameId \in DOMAIN completedInferenceResults
    /\ callbackException = Null

\* C12: inputFrameId and outputFrameId are never negative: the step that
\* advances either of them from IdMax leaves 0, and no frame gets a
\* negative id.
C12_WrapToZero ==
    [][ /\ inputFrameId' >= 0
        /\ outputFrameId' >= 0
        /\ \A k \in DOMAIN completedInferenceResults' : k >= 0
        /\ (inputFrameId = IdMax /\ inputFrameId' # inputFrameId) =>
               inputFrameId' = 0
      ]_vars

\* C13: with one driver, a thread blocked in waitForData, or woken and
\* about to test the predicate again, eventually returns from waitForData.
C13_WaitNeverBlocksForever ==
    \A t \in Drivers : (pc[t] \in {"blocked", "woken"}) ~> (pc[t] = "idle")

\* The driver blocked, a callback ran and its notify_one woke the driver,
\* which finds the predicate true.
C13_Witness ==
    /\ pc[1] = "woken"
    /\ lastOp.op = "notify_one"
    /\ waitPredicate
    /\ cbTail = 0

\* C14: the notification at the end of a completion callback wakes every
\* thread blocked in waitForData: none is left blocked by that step.
C14_NotifyWakesAll ==
    [][ lastOp'.op = "notify_one" =>
            \A t \in Drivers : pc'[t] # "blocked"
      ]_vars

\* C15: outputFrameId is written only by steps that hold mtx.
C15_OutputIdWrittenUnderLock ==
    [][ outputFrameId' # outputFrameId => MtxHeld(lastOp'.op) ]_vars

\* C16: a getInferenceResult / getResult call that finds no entry for
\* outputFrameId takes nothing, whatever other entries are stored, and
\* returns Empty; neither of its steps changes outputFrameId, the map, the
\* pool, the requests or callbackException.
C16_EmptyLeavesStateAlone ==
    [][ \A t \in Drivers :
          /\ (/\ pc[t] = "idle"
              /\ pc'[t] \in GetOps
              /\ outputFrameId \notin DOMAIN completedInferenceResults) =>
                 /\ retVal'[t] = EmptyResult
                 /\ UNCHANGED <<outputFrameId, completedInferenceResults,
                                requestsPool, requests, callbackException,
                                delivered>>
          /\ (GetReturns(t) /\ retVal[t] = EmptyResult) =>
                 /\ lastOp'.status = "empty"
                 /\ UNCHANGED <<outputFrameId, completedInferenceResults,
                                requestsPool, requests, callbackException,
                                delivered>>
      ]_vars

\* A call returned Empty while the result of a later frame is stored and
\* that of frame outputFrameId is not.
C16_Witness ==
    /\ lastOp.op \in GetOps
    /\ lastOp.status = "empty"
    /\ outputFrameId \notin DOMAIN completedInferenceResults
    /\ \E k \in DOMAIN completedInferenceResults : k > outputFrameId
    /\ callbackException = Null

\* C17: every result returned carries the metadata and the start time of
\* the submission that got its frameId, and the output the backend
\* computed for that submission (frame k is the submission of ordinal k as
\* long as inputFrameId has not wrapped), also when the request that ran it
\* has been started again and its blob overwritten.
C17_ResultCarriesOwnData ==
    \A i \in 1..Len(returned) :
        /\ returned[i].frameId = delivered[i]
        /\ returned[i].metaData = MetaData(returned[i].frameId)
        /\ returned[i].startTime = StartTime(returned[i].frameId)
        /\ returned[i].data = BackendOutput(returned[i].frameId)

\* Frame 0 ran on request 1 and was returned after request 1 had run a
\* later frame, whose output is in its blob.
C17_Witness ==
    /\ lastOp.op \in GetOps
    /\ lastOp.status = "result"
    /\ lastOp.val = 0
    /\ Len(returned) = 1
    /\ requests[1].blob > 0

\* A request that is in use although its callback has run: the callback
\* failed.
FailedSlot(s) == requestsPool[s] /\ requests[s].state = "done"

\* C18: a callback that fails stores no result and does not release its
\* request; the request stays in use, untouched, in every later step, so
\* the requests lost number as many as the callbacks that failed, the
\* frames that failed are never in the map, and once PoolSize callbacks
\* have failed every submitImage call is rejected.
C18_FailureLeaksSlot ==
    [][ /\ \A s \in Slots :
              FailedSlot(s) => (FailedSlot(s)' /\ requests'[s] = requests[s])
        /\ (lastOp'.op = "callback" /\ lastOp'.status = "failed") =>
              /\ completedInferenceResults' = completedInferenceResults
              /\ requestsPool' = requestsPool
        /\ Cardinality({s \in Slots : FailedSlot(s)'}) = Len(failOrder')
        /\ \A i \in 1..Len(failOrder') :
              failOrder'[i] \notin DOMAIN completedInferenceResults'
        /\ (Len(failOrder) = PoolSize /\ lastOp'.op = "submitImage") =>
              lastOp'.status = "rejected"
      ]_vars

\* Every request was lost to a failed callback and a submission was
\* rejected.
C18_Witness ==
    /\ Len(failOrder) = PoolSize
    /\ \A s \in Slots : FailedSlot(s)
    /\ lastOp = Op("submitImage", "rejected", -1)

\* The frameIds returned so far.
DeliveredIds == {delivered[i] : i \in 1..Len(delivered)}

\* C19: as long as inputFrameId has not wrapped, every key of the map lies
\* in outputFrameId .. inputFrameId - 1; a callback inserts a frameId that
\* was never inserted before (it is not stored, not held by a caller and
\* not returned yet); a call returns the frameId outputFrameId had, which
\* was never returned before.
C19_KeysInWindow ==
    [][ /\ \A k \in DOMAIN completedInferenceResults' :
              outputFrameId' <= k /\ k < inputFrameId'
        /\ (lastOp'.op = "callback" /\ lastOp'.status = "ok") =>
              /\ lastOp'.val \notin DOMAIN completedInferenceResults
              /\ lastOp'.val \in DOMAIN completedInferenceResults'
              /\ lastOp'.val \notin DeliveredIds
              /\ \A t \in Drivers : retVal[t].frameId # lastOp'.val
        /\ \A t \in Drivers :
              (GetReturns(t) /\ lastOp'.status = "result") =>
                  /\ lastOp'.val = outputFrameId
                  /\ lastOp'.val \notin DeliveredIds
                  /\ lastOp'.val \notin DOMAIN completedInferenceResults
      ]_vars

\* A result was returned while the results of two later frames are stored.
C19_Witness ==
    /\ lastOp.op \in GetOps
    /\ lastOp.status = "result"
    /\ Cardinality(DOMAIN completedInferenceResults) >= 2
    /\ inputFrameId > outputFrameId + 2

\* C20: when the backend completes every request and the driver keeps
\* calling waitForData and getInferenceResult, a state in which some
\* accepted submission has not had its result returned is eventually
\* followed by one in which every accepted submission has (outputFrameId
\* has caught up with inputFrameId), unless a callback fails or the
\* pipeline is destroyed first.
C20_EveryResultReturned ==
    (nSubmitted > Len(delivered)) ~>
        (Len(delivered) = nSubmitted \/ failOrder # <<>> \/ destroyed)

\* Every submission the run accepts was made and every result returned.
C20_Witness ==
    /\ nSubmitted = MaxLiveFrames
    /\ Len(delivered) = nSubmitted
    /\ outputFrameId = inputFrameId
    /\ failOrder = <<>>
    /\ ~destroyed

====
